---- MODULE Spec2Model ----
(***************************************************************************)
(* Model of the comm templated mass-messaging library:                     *)
(*   lib/comm/user_table.py  - User, UserTable (multi-platform identity    *)
(*                             index)                                      *)
(*   lib/comm/templated.py   - build_resources, build_messages,            *)
(*                             _send_to_all, send_to_all                   *)
(* Two specifications are given.  TableSpec exercises the UserTable API    *)
(* and build_resources on every small table.  Spec follows one run of      *)
(* send_to_all: build_resources, the build_messages loop, the send loop.   *)
(***************************************************************************)
EXTENDS Integers, Sequences, FiniteSets, TLC

VARIABLES
    table,          \* UserTable contents: the list of user records (self)
    mappings,       \* UserTable.mappings: platform -> ordered dict id -> user
    op,             \* TableSpec: name of the last API call
    args,           \* TableSpec: its arguments [platform, names]
    ret,            \* TableSpec: its outcome, Ok(value) or Raise(error)
    pc,             \* Spec: position in send_to_all
    platform_name,  \* Spec: platform of the run
    recipients,     \* Spec: recipients_data, resolved by build_resources
    content,        \* Spec: the content template
    i,              \* Spec: index of the next unfilled message (build loop)
    messages,       \* Spec: the list build_messages accumulates / returns
    log,            \* Spec: one entry per recipient processed by the loop
    k,              \* Spec: index of the next message of the send loop
    send_calls,     \* Spec: number of calls of basic.send_message so far
    sent,           \* Spec: messages basic.send_message delivered, in order
    error,          \* Spec: the exception that ended the run, or "none"
    raised_in       \* Spec: the function the exception was raised in

vars == <<table, mappings, op, args, ret, pc, platform_name, recipients,
          content, i, messages, log, k, send_calls, sent, error, raised_in>>

tableVars == <<table, mappings, op, args, ret>>
runVars == <<pc, platform_name, recipients, content, i, messages, log, k,
             send_calls, sent, error, raised_in>>

----------------------------------------------------------------------------
(* Bounds and input sets *)

MaxRecords == 2
MaxNames == 3
MaxRecipients == 2

Platforms == {"slack", "email"}
Ids == {"alice", "bob"}

BoundedSeq(S, n) == UNION {[1..m -> S] : m \in 0..n}

Range(s) == {s[j] : j \in DOMAIN s}

\* The identifier lists a record may give for a platform.
IdLists == {<<>>, <<"alice">>, <<"bob">>, <<"alice", "bob">>}

\* A user record: platform name -> list of identifiers, for some platforms.
Records == UNION {[P -> IdLists] : P \in SUBSET Platforms}

Tables == BoundedSeq(Records, MaxRecords)

NameLists == BoundedSeq(Ids, MaxNames)

----------------------------------------------------------------------------
(* Outcomes of a call *)

Ok(v) == [status |-> "ok", value |-> v]

Raise(e) == [status |-> "raise", error |-> e]

----------------------------------------------------------------------------
(* Python dict with insertion order: a sequence of entries [key, val].     *)
(* Assigning to an existing key replaces the value and keeps its place.    *)

dict_keys(d) == [j \in DOMAIN d |-> d[j].key]

dict_has(d, key) == \E j \in DOMAIN d : d[j].key = key

dict_get(d, key) == d[CHOOSE j \in DOMAIN d : d[j].key = key].val

dict_set(d, key, val) ==
    IF dict_has(d, key)
    THEN [j \in DOMAIN d |-> IF d[j].key = key
                             THEN [key |-> key, val |-> val]
                             ELSE d[j]]
    ELSE Append(d, [key |-> key, val |-> val])

----------------------------------------------------------------------------
(* user_table.py *)

\* User.get_ids
get_ids(user, platform) == user[platform]

\* The inner loop of _build_mappings: id_map[user_id] = user for each id.
\* A User object is identified by the position u of the record it wraps.
\* Variant: an identifier already in the map keeps its first user.
RECURSIVE add_ids_first_wins(_, _, _)
add_ids_first_wins(id_map, ids, u) ==
    IF ids = <<>> THEN id_map
    ELSE add_ids_first_wins(IF dict_has(id_map, Head(ids))
                            THEN id_map
                            ELSE dict_set(id_map, Head(ids), u),
                            Tail(ids), u)

RECURSIVE add_ids(_, _, _)
add_ids(id_map, ids, u) ==
    IF ids = <<>> THEN id_map
    ELSE add_ids(dict_set(id_map, Head(ids), u), Tail(ids), u)

\* Every identifier of the user, whatever platform it is listed under.
RECURSIVE all_ids(_, _)
all_ids(user, P) ==
    IF P = {} THEN <<>>
    ELSE LET p == CHOOSE q \in P : TRUE IN
         get_ids(user, p) \o all_ids(user, P \ {p})

\* Variant: the identifiers are not read per platform; each platform of the
\* user is given all of the user's identifiers.
add_user_any_platform(platform_map, user, u) ==
    [p \in (DOMAIN platform_map) \cup (DOMAIN user) |->
        IF p \in DOMAIN user
        THEN add_ids(IF p \in DOMAIN platform_map THEN platform_map[p]
                                                  ELSE <<>>,
                     all_ids(user, DOMAIN user), u)
        ELSE platform_map[p]]

\* Variant: the id_map of a platform is created by the first identifier
\* stored in it, so a platform listed with no identifier gets no entry.
add_user_lazy(platform_map, user, u) ==
    LET listed == {p \in DOMAIN user : get_ids(user, p) # <<>>} IN
    [p \in (DOMAIN platform_map) \cup listed |->
        IF p \in listed
        THEN add_ids(IF p \in DOMAIN platform_map THEN platform_map[p]
                                                  ELSE <<>>,
                     get_ids(user, p), u)
        ELSE platform_map[p]]

\* The body of "for user in self": every platform of the user gets an
\* id_map (created empty when the platform is new) and the user's ids.
add_user(platform_map, user, u) ==
    [p \in (DOMAIN platform_map) \cup (DOMAIN user) |->
        IF p \in DOMAIN user
        THEN add_ids(IF p \in DOMAIN platform_map THEN platform_map[p]
                                                  ELSE <<>>,
                     get_ids(user, p), u)
        ELSE platform_map[p]]

RECURSIVE build_from(_, _, _)
build_from(data, u, platform_map) ==
    IF u > Len(data) THEN platform_map
    ELSE build_from(data, u + 1, add_user(platform_map, data[u], u))

\* UserTable._build_mappings
build_mappings(data) == build_from(data, 1, <<>>)

\* UserTable.get_users
get_users(mp, platform) ==
    IF platform \in DOMAIN mp THEN Ok(mp[platform]) ELSE Raise("KeyError")

\* UserTable.get_user
get_user(mp, platform, username) ==
    LET users == get_users(mp, platform) IN
    IF users.status = "raise" THEN users
    ELSE IF dict_has(users.value, username)
         THEN Ok(dict_get(users.value, username))
         ELSE Raise("KeyError")

\* UserTable.get_unrecognized: the list comprehension looks the platform up
\* once per username, so an unknown platform raises only if there is a
\* username to test.
RECURSIVE unrecognized_from(_, _, _, _)
unrecognized_from(mp, platform, usernames, acc) ==
    IF usernames = <<>> THEN Ok(acc)
    ELSE LET users == get_users(mp, platform) IN
         IF users.status = "raise" THEN users
         ELSE unrecognized_from(mp, platform, Tail(usernames),
                  IF dict_has(users.value, Head(usernames))
                  THEN acc
                  ELSE Append(acc, Head(usernames)))

\* Variant: the unknown usernames are collected as a set, each kept once.
RECURSIVE unrecognized_once(_, _, _, _)
unrecognized_once(mp, platform, usernames, acc) ==
    IF usernames = <<>> THEN Ok(acc)
    ELSE LET users == get_users(mp, platform) IN
         IF users.status = "raise" THEN users
         ELSE unrecognized_once(mp, platform, Tail(usernames),
                  IF \/ dict_has(users.value, Head(usernames))
                     \/ Head(usernames) \in Range(acc)
                  THEN acc
                  ELSE Append(acc, Head(usernames)))

get_unrecognized_once(mp, platform, usernames) ==
    unrecognized_once(mp, platform, usernames, <<>>)

get_unrecognized(mp, platform, usernames) ==
    unrecognized_from(mp, platform, usernames, <<>>)

----------------------------------------------------------------------------
(* templated.py: build_resources *)

\* Lines 205-217.  The result keeps the two entries the claims are about:
\* the recipients_data handed to basic.build_resources and the user table.
\* Variant: the identifiers of the table are merged into an explicit list.
build_resources_merge(platform, recipients_data, user_table_data) ==
    LET mp == build_mappings(user_table_data)
        users == get_users(mp, platform) IN
    IF users.status = "raise"
    THEN IF recipients_data = <<>> THEN users
         ELSE Ok([recipients |-> recipients_data, user_table |-> mp])
    ELSE Ok([recipients |-> recipients_data \o
                SelectSeq(dict_keys(users.value),
                          LAMBDA x : x \notin Range(recipients_data)),
             user_table |-> mp])

build_resources(platform, recipients_data, user_table_data) ==
    LET mp == build_mappings(user_table_data) IN
    IF recipients_data = <<>>
    THEN LET users == get_users(mp, platform) IN
         IF users.status = "raise" THEN users
         ELSE Ok([recipients |-> dict_keys(users.value), user_table |-> mp])
    ELSE Ok([recipients |-> recipients_data, user_table |-> mp])

----------------------------------------------------------------------------
(* TableSpec: a constructed UserTable and calls of its API *)

NoArgs == [platform |-> "none", names |-> <<>>]

RunIdle ==
    /\ pc = "idle"
    /\ platform_name = "none"
    /\ recipients = <<>>
    /\ content = <<>>
    /\ i = 0
    /\ messages = <<>>
    /\ log = <<>>
    /\ k = 0
    /\ send_calls = 0
    /\ sent = <<>>
    /\ error = "none"
    /\ raised_in = "none"

TableInit ==
    /\ table \in Tables
    /\ mappings = build_mappings(table)
    /\ op = "init"
    /\ args = NoArgs
    /\ ret = Ok(<<>>)
    /\ RunIdle

CallGetUsers ==
    /\ op = "init"
    /\ \E p \in Platforms :
           /\ op' = "get_users"
           /\ args' = [platform |-> p, names |-> <<>>]
           /\ ret' = get_users(mappings, p)
           /\ UNCHANGED <<table, mappings, runVars>>

CallGetUser ==
    /\ op = "init"
    /\ \E p \in Platforms, x \in Ids :
           /\ op' = "get_user"
           /\ args' = [platform |-> p, names |-> <<x>>]
           /\ ret' = get_user(mappings, p, x)
           /\ UNCHANGED <<table, mappings, runVars>>

CallGetUnrecognized ==
    /\ op = "init"
    /\ \E p \in Platforms, names \in NameLists :
           /\ op' = "get_unrecognized"
           /\ args' = [platform |-> p, names |-> names]
           /\ ret' = get_unrecognized(mappings, p, names)
           /\ UNCHANGED <<table, mappings, runVars>>

CallBuildResources ==
    /\ op = "init"
    /\ \E p \in Platforms, names \in BoundedSeq(Ids, MaxRecipients) :
           /\ op' = "build_resources"
           /\ args' = [platform |-> p, names |-> names]
           /\ ret' = build_resources(p, names, table)
           /\ UNCHANGED <<table, mappings, runVars>>

\* The caller has consumed the outcome and may call again.
Return ==
    /\ op # "init"
    /\ op' = "init"
    /\ args' = NoArgs
    /\ ret' = Ok(<<>>)
    /\ UNCHANGED <<table, mappings, runVars>>

TableNext ==
    \/ CallGetUsers
    \/ CallGetUser
    \/ CallGetUnrecognized
    \/ CallBuildResources
    \/ Return

TableSpec == TableInit /\ [][TableNext]_vars

----------------------------------------------------------------------------
(* platforms.py *)

\* platform_class: adapter class by platform name
platform_class == [slack |-> "Slack", email |-> "Email"]

\* platform_name: platform name by adapter class, the inverse mapping
platform_name_by_class ==
    [c \in {platform_class[n] : n \in DOMAIN platform_class} |->
        CHOOSE n \in DOMAIN platform_class : platform_class[n] = c]

----------------------------------------------------------------------------
(* templated.py: build_messages and _send_to_all *)

\* What template_input_builder may return: None, a tuple of one or of two
\* strings, a bare string (an iterable of its characters), an integer.
NoneInput == [kind |-> "None", items |-> <<>>]

TemplateInputs ==
    { NoneInput,
      [kind |-> "tuple", items |-> <<"Alice">>],
      [kind |-> "tuple", items |-> <<"Alice", "Smith">>],
      [kind |-> "str", items |-> <<"A", "l", "i", "c", "e">>],
      [kind |-> "int", items |-> <<>>] }

\* The entry logged for a recipient the builder was not called for.
NotCalled == [kind |-> "not called", items |-> <<>>]

\* A content template is the sequence of its positional fields, numbered
\* from 0: <<0>> is 'Hi {}', <<0, 1>> is 'Dear {} {}'.
Templates == {<<0>>, <<0, 1>>}

\* Line 267, message.content.format(*template_input): the value is unpacked
\* as an iterable (TypeError when it is none), then every field takes the
\* argument at its position (IndexError when there is none); arguments no
\* field names are ignored.
format(template, template_input) ==
    IF template_input.kind \notin {"tuple", "str"}
    THEN Raise("TypeError")
    ELSE IF \E f \in DOMAIN template :
                template[f] >= Len(template_input.items)
         THEN Raise("IndexError")
         ELSE Ok([f \in DOMAIN template |->
                     template_input.items[template[f] + 1]])

\* basic.build_messages: one unfilled message per recipient, in order.
basic_build_messages(sender, rcpts, template) ==
    [j \in DOMAIN rcpts |->
        [sender |-> sender, recipient |-> rcpts[j], content |-> template]]

\* Variant: a recipient without a user table entry ends the batch.
build_step_no_catch(mp, platform, message, template_input) ==
    LET pname == platform_name_by_class[platform]
        user == get_user(mp, pname, message.recipient) IN
    IF user.status = "raise"
    THEN [kind |-> "raise", error |-> user.error, input |-> NotCalled,
          message |-> message]
    ELSE IF template_input = NoneInput
    THEN [kind |-> "skip absent", error |-> "none",
          input |-> template_input, message |-> message]
    ELSE LET filled == format(message.content, template_input) IN
         IF filled.status = "raise"
         THEN [kind |-> "raise", error |-> filled.error,
               input |-> template_input, message |-> message]
         ELSE [kind |-> "append", error |-> "none",
               input |-> template_input,
               message |-> [sender |-> message.sender,
                            recipient |-> message.recipient,
                            content |-> filled.value]]

\* Lines 254-273, one pass of the loop of build_messages for an unfilled
\* message, template_input being what the builder returns when it is called.
\* The TypeError of format is raised again as a TypeError; any other error
\* of format propagates as it is.
build_step(mp, platform, message, template_input) ==
    LET pname == platform_name_by_class[platform]
        user == get_user(mp, pname, message.recipient) IN
    IF user.status = "raise"
    THEN [kind |-> "skip unresolved", error |-> "none", input |-> NotCalled,
          message |-> message]
    ELSE IF template_input = NoneInput
    THEN [kind |-> "skip absent", error |-> "none",
          input |-> template_input, message |-> message]
    ELSE LET filled == format(message.content, template_input) IN
         IF filled.status = "raise"
         THEN [kind |-> "raise", error |-> filled.error,
               input |-> template_input, message |-> message]
         ELSE [kind |-> "append", error |-> "none",
               input |-> template_input,
               message |-> [sender |-> message.sender,
                            recipient |-> message.recipient,
                            content |-> filled.value]]

\* Variant: the new message is put in front of the list.
append_message_front(msgs, message) == <<message>> \o msgs

\* Lines 271-273: messages.append(...)
append_message(msgs, message) == Append(msgs, message)

\* Variant: the send loop may run as soon as a message has been built.
can_send_eager(p, n, msgs) ==
    p \in {"build_messages", "send"} /\ n <= Len(msgs)

\* Lines 287-289: the send loop runs over the list build_messages returned.
can_send(p, n, msgs) == p = "send" /\ n <= Len(msgs)

\* Variant: a failed send is noted and the loop goes on to the next message.
send_step_continue(msgs, n, delivered, ok) ==
    IF ok
    THEN [pc |-> "send", k |-> n + 1, sent |-> Append(delivered, msgs[n]),
          error |-> "none"]
    ELSE [pc |-> "send", k |-> n + 1, sent |-> delivered,
          error |-> "TransportError"]

\* Lines 288-289, one pass of the send loop: basic.send_message either
\* delivers message n or raises, and nothing catches what it raises.
send_step(msgs, n, delivered, ok) ==
    IF ok
    THEN [pc |-> "send", k |-> n + 1, sent |-> Append(delivered, msgs[n]),
          error |-> "none"]
    ELSE [pc |-> "raised", k |-> n, sent |-> delivered,
          error |-> "TransportError"]

----------------------------------------------------------------------------
(* Spec: one run of send_to_all *)

RecipientIds == {"alice", "bob", "carol"}

\* The user tables of the runs: none, the two-user table of the scenario,
\* one with an identifier claimed twice, one without the slack platform,
\* one whose slack platform has no identifier.
SampleTables ==
    { <<>>,
      <<[slack |-> <<"alice">>],
        [slack |-> <<"bob">>, email |-> <<"bob@x.com">>]>>,
      <<[slack |-> <<"alice", "bob">>],
        [slack |-> <<"alice">>, email |-> <<"alice">>]>>,
      <<[email |-> <<"carol">>]>>,
      <<[slack |-> <<>>]>> }

Sender == "sender"

TableIdle ==
    /\ op = "init"
    /\ args = NoArgs
    /\ ret = Ok(<<>>)

\* The arguments of send_to_all.
Init ==
    /\ pc = "send_to_all"
    /\ table \in SampleTables
    /\ mappings = <<>>
    /\ platform_name \in DOMAIN platform_class
    /\ recipients \in BoundedSeq(RecipientIds, MaxRecipients)
    /\ content \in Templates
    /\ i = 1
    /\ messages = <<>>
    /\ log = <<>>
    /\ k = 1
    /\ send_calls = 0
    /\ sent = <<>>
    /\ error = "none"
    /\ raised_in = "none"
    /\ TableIdle

\* build_resources returns; _send_to_all enters build_messages (lines
\* 251-253).
BuildResourcesOk ==
    /\ pc = "send_to_all"
    /\ LET r == build_resources(platform_name, recipients, table) IN
       /\ r.status = "ok"
       /\ mappings' = r.value.user_table
       /\ recipients' = r.value.recipients
    /\ pc' = "build_messages"
    /\ i' = 1
    /\ messages' = <<>>
    /\ UNCHANGED <<table, op, args, ret, platform_name, content, log, k,
                   send_calls, sent, error, raised_in>>

\* build_resources raises: the run ends before any message is built.
BuildResourcesRaise ==
    /\ pc = "send_to_all"
    /\ LET r == build_resources(platform_name, recipients, table) IN
       /\ r.status = "raise"
       /\ error' = r.error
    /\ pc' = "raised"
    /\ raised_in' = "build_resources"
    /\ UNCHANGED <<table, mappings, op, args, ret, platform_name, recipients,
                   content, i, messages, log, k, send_calls, sent>>

Unfilled == basic_build_messages(Sender, recipients, content)

LogEntry(r) ==
    [recipient |-> r.message.recipient, input |-> r.input, outcome |-> r.kind]

\* One pass of the loop of build_messages that goes on to the next message.
Continue(r) ==
    /\ log' = Append(log, LogEntry(r))
    /\ i' = i + 1
    /\ UNCHANGED <<table, mappings, op, args, ret, pc, platform_name,
                   recipients, content, k, send_calls, sent, error,
                   raised_in>>

InLoop == pc = "build_messages" /\ i <= Len(Unfilled)

SkipUnresolved ==
    /\ InLoop
    /\ \E ti \in TemplateInputs :
         LET r == build_step(mappings, platform_class[platform_name],
                             Unfilled[i], ti) IN
         /\ r.kind = "skip unresolved"
         /\ messages' = messages
         /\ Continue(r)

SkipAbsent ==
    /\ InLoop
    /\ \E ti \in TemplateInputs :
         LET r == build_step(mappings, platform_class[platform_name],
                             Unfilled[i], ti) IN
         /\ r.kind = "skip absent"
         /\ messages' = messages
         /\ Continue(r)

AppendMessage ==
    /\ InLoop
    /\ \E ti \in TemplateInputs :
         LET r == build_step(mappings, platform_class[platform_name],
                             Unfilled[i], ti) IN
         /\ r.kind = "append"
         /\ messages' = append_message(messages, r.message)
         /\ Continue(r)

RaiseInBuild ==
    /\ InLoop
    /\ \E ti \in TemplateInputs :
         LET r == build_step(mappings, platform_class[platform_name],
                             Unfilled[i], ti) IN
         /\ r.kind = "raise"
         /\ log' = Append(log, LogEntry(r))
         /\ error' = r.error
    /\ pc' = "raised"
    /\ raised_in' = "build_messages"
    /\ UNCHANGED <<table, mappings, op, args, ret, platform_name, recipients,
                   content, i, messages, k, send_calls, sent>>

\* Line 274 and line 288: build_messages returns, the send loop starts.
ReturnMessages ==
    /\ pc = "build_messages"
    /\ i > Len(Unfilled)
    /\ pc' = "send"
    /\ k' = 1
    /\ UNCHANGED <<table, mappings, op, args, ret, platform_name, recipients,
                   content, i, messages, log, send_calls, sent, error,
                   raised_in>>

SendEffect(ok) ==
    /\ LET r == send_step(messages, k, sent, ok) IN
       /\ pc' = IF r.pc = "raised" THEN "raised" ELSE pc
       /\ k' = r.k
       /\ sent' = r.sent
       /\ error' = r.error
       /\ raised_in' = IF r.pc = "raised" THEN "send_message" ELSE raised_in
    /\ send_calls' = send_calls + 1
    /\ UNCHANGED <<table, mappings, op, args, ret, platform_name, recipients,
                   content, i, messages, log>>

\* basic.send_message delivers message k.
SendOk ==
    /\ can_send(pc, k, messages)
    /\ SendEffect(TRUE)

\* basic.send_message raises on message k.
SendRaise ==
    /\ can_send(pc, k, messages)
    /\ SendEffect(FALSE)

\* The send loop is exhausted: _send_to_all returns.
Finish ==
    /\ pc = "send"
    /\ k > Len(messages)
    /\ pc' = "done"
    /\ UNCHANGED <<table, mappings, op, args, ret, platform_name, recipients,
                   content, i, messages, log, k, send_calls, sent, error,
                   raised_in>>

Next ==
    \/ BuildResourcesOk
    \/ BuildResourcesRaise
    \/ SkipUnresolved
    \/ SkipAbsent
    \/ AppendMessage
    \/ RaiseInBuild
    \/ ReturnMessages
    \/ SendOk
    \/ SendRaise
    \/ Finish

Spec == Init /\ [][Next]_vars

----------------------------------------------------------------------------
(* Vocabulary of the properties, read off the input records directly *)

\* The positions of the records that list x under platform p.
Listing(t, p, x) ==
    {u \in 1..Len(t) : p \in DOMAIN t[u] /\ x \in Range(t[u][p])}

\* Some record has platform p as a key.
HasPlatform(t, p) == \E u \in 1..Len(t) : p \in DOMAIN t[u]

\* The identifiers some record lists under platform p.
KnownIds(t, p) ==
    UNION {Range(t[u][p]) : u \in {v \in 1..Len(t) : p \in DOMAIN t[v]}}

Latest(S) == CHOOSE u \in S : \A v \in S : v <= u

NoDuplicates(s) == \A a, b \in DOMAIN s : s[a] = s[b] => a = b

Occurrences(s, x) == Cardinality({j \in DOMAIN s : s[j] = x})

\* s can be obtained from t by deleting elements.
RECURSIVE IsSubseq(_, _)
IsSubseq(s, t) ==
    IF s = <<>> THEN TRUE
    ELSE IF t = <<>> THEN FALSE
    ELSE IF Head(s) = Head(t) THEN IsSubseq(Tail(s), Tail(t))
    ELSE IsSubseq(s, Tail(t))

----------------------------------------------------------------------------
(* Properties of the user table (TableSpec) *)

\* C4: when two or more records list the same identifier x for the same
\* platform p, the table is built without error and get_user(p, x) returns
\* the record that is latest in input order among those listing x for p.
C4_LastWriteWins ==
    (/\ op = "get_user"
     /\ Cardinality(Listing(table, args.platform, args.names[1])) >= 2)
    => /\ ret.status = "ok"
       /\ ret.value = Latest(Listing(table, args.platform, args.names[1]))

C4_Witness ==
    /\ op = "get_user"
    /\ Cardinality(Listing(table, args.platform, args.names[1])) >= 2
    /\ ret.status = "ok"
    /\ ret.value = Len(table)
    /\ table[1] # table[Len(table)]

\* C5: for every (platform, id) pair that some input record lists,
\* get_user(platform, id) succeeds and returns a record whose identifier
\* list for that platform contains id.
C5_IndexCorrect ==
    (/\ op = "get_user"
     /\ Listing(table, args.platform, args.names[1]) # {})
    => /\ ret.status = "ok"
       /\ ret.value \in 1..Len(table)
       /\ args.platform \in DOMAIN table[ret.value]
       /\ args.names[1] \in Range(table[ret.value][args.platform])

C5_Witness ==
    /\ op = "get_user"
    /\ ret.status = "ok"
    /\ Cardinality(Listing(table, args.platform, args.names[1])) >= 2
    /\ Cardinality(DOMAIN table[ret.value]) >= 2
    /\ Len(table[ret.value][args.platform]) >= 2
    /\ args.names[1] \in Range(table[ret.value][args.platform])

\* C8: get_users(platform) raises KeyError exactly when no input record has
\* platform as a key; get_user(platform, id) raises KeyError exactly when the
\* platform is unknown or no record lists id under it; otherwise both return.
C8_NotFoundExactly ==
    /\ op = "get_users" =>
          /\ ret.status = "raise" <=> ~HasPlatform(table, args.platform)
          /\ ret.status = "raise" => ret.error = "KeyError"
          /\ ret.status \in {"ok", "raise"}
    /\ op = "get_user" =>
          /\ ret.status = "raise" <=>
                \/ ~HasPlatform(table, args.platform)
                \/ Listing(table, args.platform, args.names[1]) = {}
          /\ ret.status = "raise" => ret.error = "KeyError"
          /\ ret.status \in {"ok", "raise"}

C8_Witness ==
    /\ op = "get_users"
    /\ HasPlatform(table, args.platform)
    /\ KnownIds(table, args.platform) = {}
    /\ ret.status = "ok"
    /\ \E q \in Platforms : ~HasPlatform(table, q)

\* The result of get_unrecognized for ids, given the key set of the platform:
\* a sub-sequence of ids holding every unknown id as often as ids does and
\* no known id.
UnrecognizedOf(result, ids, keys) ==
    /\ IsSubseq(result, ids)
    /\ \A x \in Range(ids) :
          Occurrences(result, x) = IF x \in keys THEN 0
                                   ELSE Occurrences(ids, x)

\* C7: get_unrecognized(p, ids) returns exactly the elements of ids that
\* are not keys of get_users(p), in input order and with their multiplicity,
\* whenever get_users(p) has a key set, and the call changes neither the
\* table nor its index.
C7_UnrecognizedFilter ==
    [][op' = "get_unrecognized" =>
         /\ table' = table
         /\ mappings' = mappings
         /\ get_users(mappings', args'.platform).status = "ok" =>
               /\ ret'.status = "ok"
               /\ UnrecognizedOf(ret'.value, args'.names,
                     Range(dict_keys(
                         get_users(mappings', args'.platform).value)))
         /\ ret'.status = "ok" =>
               \/ get_users(mappings', args'.platform).status = "ok"
               \/ args'.names = <<>> /\ ret'.value = <<>>]_vars

C7_Witness ==
    /\ op = "get_unrecognized"
    /\ ret.status = "ok"
    /\ Len(args.names) > Len(ret.value)
    /\ Len(ret.value) >= 2
    /\ ret.value[1] = ret.value[2]
    /\ args.names[1] # args.names[2]

\* C6 as stated: with recipients_data = [] the resolved list is exactly the
\* set of identifiers the table knows for the platform, for every platform
\* name and table; a non-empty recipients_data is passed through unmodified.
C6_DefaultExpansionAlways ==
    op = "build_resources" =>
        /\ ret.status = "ok"
        /\ IF args.names = <<>>
           THEN /\ NoDuplicates(ret.value.recipients)
                /\ Range(ret.value.recipients) = KnownIds(table, args.platform)
           ELSE ret.value.recipients = args.names

\* C6 as amended: with recipients_data = [] and a platform that some record
\* has as a key, the resolved list is exactly the set of identifiers the
\* table knows for the platform, each once; with recipients_data = [] and a
\* platform no record has as a key, build_resources raises KeyError; a
\* non-empty recipients_data is passed through unmodified.
C6_DefaultExpansion ==
    op = "build_resources" =>
        IF args.names = <<>>
        THEN IF HasPlatform(table, args.platform)
             THEN /\ ret.status = "ok"
                  /\ NoDuplicates(ret.value.recipients)
                  /\ Range(ret.value.recipients)
                        = KnownIds(table, args.platform)
             ELSE /\ ret.status = "raise"
                  /\ ret.error = "KeyError"
        ELSE /\ ret.status = "ok"
             /\ ret.value.recipients = args.names

C6_Witness ==
    /\ op = "build_resources"
    /\ args.names = <<>>
    /\ ret.status = "ok"
    /\ Len(ret.value.recipients) >= 2
    /\ \E x \in Ids : Cardinality(Listing(table, args.platform, x)) >= 2

----------------------------------------------------------------------------
(* Properties of a run of send_to_all (Spec) *)

\* build_messages has returned its list to _send_to_all.
Returned == pc \in {"send", "done"} \/ raised_in = "send_message"

\* The positions of the recipients with no user table entry for the platform.
Unresolvable ==
    {j \in DOMAIN recipients :
        Listing(table, platform_name, recipients[j]) = {}}

\* The positions of the recipients the builder returned None for.
Absent == {j \in DOMAIN log : log[j].input = NoneInput}

MessageRecipients == [j \in DOMAIN messages |-> messages[j].recipient]

\* C1: when build_messages returns normally, the number of messages is the
\* number of recipients minus those with no user table entry for the
\* platform minus the resolvable ones the builder returned None for; a
\* recipient absent from the table gets no message and does not end the
\* batch.
C1_MessageCount ==
    /\ Returned =>
          /\ Len(messages) = Len(recipients) - Cardinality(Unresolvable)
                                             - Cardinality(Absent)
          /\ Absent \cap Unresolvable = {}
          /\ \A j \in DOMAIN messages :
                Listing(table, platform_name, messages[j].recipient) # {}
    /\ raised_in = "build_messages" =>
          /\ error # "KeyError"
          /\ Len(log) \notin Unresolvable

C1_Witness ==
    /\ pc = "done"
    /\ Len(recipients) >= 2
    /\ 1 \in Unresolvable
    /\ Cardinality(Unresolvable) = 1
    /\ Len(messages) = Len(recipients) - 1

\* C2: the recipients of the messages form a sub-sequence of the recipient
\* list: every position of the list yields at most one message, and the
\* messages come in the order of the positions they were built for.
C2_OrderPreserved ==
    /\ \A j \in DOMAIN log : log[j].recipient = recipients[j]
    /\ MessageRecipients =
          [j \in DOMAIN SelectSeq(log, LAMBDA e : e.outcome = "append") |->
              SelectSeq(log, LAMBDA e : e.outcome = "append")[j].recipient]
    /\ IsSubseq(MessageRecipients, recipients)
    /\ Len(messages) <= Len(recipients)

C2_Witness ==
    /\ Returned
    /\ Len(messages) >= 2
    /\ messages[1].recipient # messages[2].recipient
    /\ messages[1].recipient = recipients[1]

\* C3: a builder result that is neither None nor a tuple of substitution
\* values (a bare string, an integer) makes build_messages raise TypeError
\* at that recipient: the batch ends, and the recipient is neither skipped
\* nor given a message.
C3_InvalidInputFatal ==
    \A j \in DOMAIN log :
        log[j].input.kind \in {"str", "int"} =>
            /\ pc = "raised"
            /\ raised_in = "build_messages"
            /\ error = "TypeError"
            /\ log[j].outcome = "raise"
            /\ j = Len(log)

\* C9: the messages are handed to the send primitive one at a time in the
\* order of the list; when the send of message k raises, the error ends the
\* run uncaught, messages 1..k-1 have been sent once each and no later
\* message is sent.
C9_SendInOrder ==
    /\ (Returned \/ sent # <<>>) =>
          /\ k \in 1..(Len(messages) + 1)
          /\ sent = SubSeq(messages, 1, k - 1)
    /\ error = "TransportError" =>
          /\ pc = "raised"
          /\ raised_in = "send_message"
          /\ k \in 1..Len(messages)
          /\ send_calls = k
          /\ sent = SubSeq(messages, 1, k - 1)
    /\ (Returned /\ error = "none") => send_calls = k - 1
    /\ pc = "done" => sent = messages

C9_Witness ==
    /\ error = "TransportError"
    /\ pc = "raised"
    /\ k = Len(messages)
    /\ Len(sent) = 1
    /\ Len(messages) >= 2

\* C10: nothing is sent before build_messages has processed every
\* recipient; when build_messages raises, the send primitive has not been
\* called in the run, whatever messages were already built.
C10_NoSendBeforeBuilt ==
    (pc \in {"send_to_all", "build_messages"}
        \/ raised_in \in {"build_resources", "build_messages"})
    => /\ sent = <<>>
       /\ send_calls = 0

C10_Witness ==
    /\ pc = "raised"
    /\ raised_in = "build_messages"
    /\ Len(messages) >= 1
    /\ sent = <<>>

====
